---- MODULE Spec2Model ----
(***************************************************************************)
(* A model of libWeatherMeters (weatherMeter.c / weatherMeter.h): the wind *)
(* vane classifier, the anemometer counter and the rain bucket counter.    *)
(*                                                                         *)
(* uint32_t values that can leave the range of the model checker's         *)
(* integers are kept as a pair <<hi, lo>> of 16-bit halves, and all        *)
(* arithmetic on them wraps modulo 2^32 as the C arithmetic does.          *)
(***************************************************************************)
EXTENDS Integers, Sequences, FiniteSets, TLC

(***************************************************************************)
(* Program constants                                                       *)
(***************************************************************************)
WIND_VANE_ADC_BUF_SIZE == 64
WIND_VANE_CODE_BAND == 20
WIND_VANE_DIRECTIONS_COUNT == 16

NULL == "NULL"

\* the handles the application owns: one ADC, one timer per pulse counter
hadc1 == "hadc1"
htimSpeed == "htimSpeed"
htimRain == "htimRain"

(***************************************************************************)
(* Bounds of the model                                                     *)
(***************************************************************************)
\* how many trailing samples of a DMA transfer differ from the leading ones
MaxMix == 2
\* the largest value passed as a direction to getWindVaneDirString
MaxDirection == 18
\* the most pulses the anemometer's and the rain bucket's counter hold
MaxSpeedPulses == 10
MaxRainPulses == 2
\* the most pulses that arrive at one counter while the pulses are accounted
MaxArrived == 4
\* the most pulses a counter holds when all three components run together
MaxDriverPulses == 2

(***************************************************************************)
(* uint32_t arithmetic on 16-bit halves                                    *)
(***************************************************************************)
W16 == 2^16

U32(n) == <<n \div W16, n % W16>>

Add32(a, b) ==
    LET lo == a[2] + b[2]
        hi == a[1] + b[1] + (lo \div W16)
    IN  <<hi % W16, lo % W16>>

Sub32(a, b) ==
    LET lo == a[2] - b[2]
        borrow == IF lo < 0 THEN 1 ELSE 0
        hi == a[1] - b[1] - borrow
    IN  <<(hi + W16) % W16, (lo + W16) % W16>>

Div32(a, n) ==
    LET qh == a[1] \div n
        rh == a[1] % n
    IN  <<qh, (rh * W16 + a[2]) \div n>>

Geq32(a, b) == (a[1] > b[1]) \/ (a[1] = b[1] /\ a[2] >= b[2])

Leq32(a, b) == Geq32(b, a)

(***************************************************************************)
(* Calibration data                                                        *)
(***************************************************************************)
\* WIND_VANE_VALUES with 1161 for E in place of 1171
WIND_VANE_VALUES_close ==
    [i \in 0..(WIND_VANE_DIRECTIONS_COUNT - 1) |->
        U32(<<3541, 2476, 2660, 1123, 1161, 1029, 1606, 1334,
              2042, 1869, 3159, 3073, 3881, 3635, 3762, 3341>>[i + 1])]

WIND_VANE_VALUES ==
    [i \in 0..(WIND_VANE_DIRECTIONS_COUNT - 1) |->
        U32(<<3541, 2476, 2660, 1123, 1171, 1029, 1606, 1334,
              2042, 1869, 3159, 3073, 3881, 3635, 3762, 3341>>[i + 1])]

(***************************************************************************)
(* State                                                                   *)
(***************************************************************************)
VARIABLES
    hwindVaneAdc,       \* ADC_HandleTypeDef* hwindVaneAdc
    adcDma,             \* TRUE once HAL_ADC_Start_DMA has started the transfer
    _adcBuf,            \* uint32_t _adcBuf[WIND_VANE_ADC_BUF_SIZE]
    _average,           \* static volatile uint32_t _average
    hwindSpeedTimer,    \* TIM_HandleTypeDef* hwindSpeedTimer
    hrainBucketCounter, \* TIM_HandleTypeDef* hrainBucketCounter
    CNT,                \* the counter register Instance->CNT of each timer
    CEN,                \* TRUE for a timer that HAL_TIM_Base_Start has started
    _windSpeedCount,    \* static volatile uint32_t _windSpeedCount
    _rainBucketCount,   \* static volatile uint32_t _rainBucketCount
    string,             \* the caller's 4-char buffer of getWindVaneDirString
    pc,                 \* where the software is inside a call, "idle" outside,
                        \* "undefined" once a NULL handle has been dereferenced
    dirI,               \* the loop index i of getWindVaneDirection
    held,               \* the values _average held during getWindVaneDirection
    arrived,            \* per timer, the pulses that arrived at the counter
    captured,           \* per timer, the sum of the counts read from it
    lost,               \* per timer, the pulses that arrived between a read
                        \* of the counter and the reset that follows it
    last                \* the most recent event: its name, argument and result

vaneVars == <<hwindVaneAdc, adcDma, _adcBuf, _average>>

timerVars == <<hwindSpeedTimer, hrainBucketCounter, CNT, CEN,
               _windSpeedCount, _rainBucketCount>>

\* what the program and the hardware hold, without the records of the model
progVars == <<vaneVars, timerVars, string>>

pulseLog == <<arrived, captured, lost>>

vars == <<vaneVars, timerVars, string, pc, dirI, held, pulseLog, last>>

Timers == {htimSpeed, htimRain}

BufIndex == 0..(WIND_VANE_ADC_BUF_SIZE - 1)

NoCall == [op |-> "none", arg |-> NULL, ret |-> 0]

Init ==
    /\ hwindVaneAdc = NULL
    /\ adcDma = FALSE
    /\ _adcBuf = [i \in BufIndex |-> U32(0)]
    /\ _average = U32(0)
    /\ hwindSpeedTimer = NULL
    /\ hrainBucketCounter = NULL
    /\ CNT = [t \in Timers |-> 0]
    /\ CEN = [t \in Timers |-> FALSE]
    /\ _windSpeedCount = 0
    /\ _rainBucketCount = 0
    /\ string = <<0, 0, 0, 0>>
    /\ pc = "idle"
    /\ dirI = 0
    /\ held = {}
    /\ arrived = [t \in Timers |-> 0]
    /\ captured = [t \in Timers |-> 0]
    /\ lost = [t \in Timers |-> 0]
    /\ last = NoCall

(***************************************************************************)
(* Wind vane                                                               *)
(*                                                                         *)
(* The functions of the library are called from one software context, so  *)
(* a call starts when no other call is in progress (pc = "idle").  The     *)
(* hardware (DMA transfers, pulses) acts at any time, and processWindVane  *)
(* is the DMA transfer complete callback: it runs to completion, also in   *)
(* the middle of another call.                                             *)
(***************************************************************************)
initWindVane(hadc) ==
    /\ pc = "idle"
    /\ IF hadc = NULL
       THEN /\ last' = [op |-> "initWindVane", arg |-> hadc, ret |-> 1]
            /\ UNCHANGED <<hwindVaneAdc, adcDma>>
       ELSE /\ hwindVaneAdc' = hadc
            /\ adcDma' = TRUE
            /\ last' = [op |-> "initWindVane", arg |-> hadc, ret |-> 0]
    /\ UNCHANGED <<_adcBuf, _average, timerVars, string, pc, dirI>>

\* The ADC's DMA transfer overwrites the sample buffer.
DmaTransfer(buf) ==
    /\ adcDma
    /\ _adcBuf' = buf
    /\ last' = [op |-> "DmaTransfer", arg |-> NULL, ret |-> 0]
    /\ UNCHANGED <<hwindVaneAdc, adcDma, _average, timerVars, string, pc, dirI>>

\* the sum of the halves h of buf[from], ..., buf[to], without wrapping
RECURSIVE SumHalf(_, _, _, _)
SumHalf(buf, from, to, h) ==
    IF from = to THEN buf[from][h]
    ELSE LET mid == (from + to) \div 2
         IN  SumHalf(buf, from, mid, h) + SumHalf(buf, mid + 1, to, h)

\* the loop of processWindVane: _average += _adcBuf[i] for i in 0..63.
\* Each addition wraps modulo 2^32, which leaves the sum of all the samples
\* modulo 2^32 in the accumulator.
Accumulate(buf) ==
    LET lo == SumHalf(buf, 0, WIND_VANE_ADC_BUF_SIZE - 1, 2)
        hi == SumHalf(buf, 0, WIND_VANE_ADC_BUF_SIZE - 1, 1) + (lo \div W16)
    IN  <<hi % W16, lo % W16>>

AverageOf(buf) == Div32(Accumulate(buf), WIND_VANE_ADC_BUF_SIZE)

processWindVane ==
    /\ _average' = AverageOf(_adcBuf)
    /\ last' = [op |-> "processWindVane", arg |-> NULL, ret |-> 0]
    /\ UNCHANGED <<hwindVaneAdc, adcDma, _adcBuf, timerVars, string, pc, dirI>>

\* the two comparisons of one table entry, each on one read of _average
LowerOk(i, v) == Geq32(v, Sub32(WIND_VANE_VALUES[i], U32(WIND_VANE_CODE_BAND)))

\* UpperOk with the upper edge of the band left out
UpperOk_exclusive(i, v) ==
    ~Geq32(v, Add32(WIND_VANE_VALUES[i], U32(WIND_VANE_CODE_BAND)))

UpperOk(i, v) == Leq32(v, Add32(WIND_VANE_VALUES[i], U32(WIND_VANE_CODE_BAND)))

RECURSIVE ScanTable(_, _)
ScanTable(i, v) ==
    IF i < WIND_VANE_DIRECTIONS_COUNT
    THEN IF LowerOk(i, v) /\ UpperOk(i, v)
         THEN i
         ELSE ScanTable(i + 1, v)
    ELSE WIND_VANE_DIRECTIONS_COUNT

\* the call as a whole, when nothing preempts it
getWindVaneDirection ==
    /\ pc = "idle"
    /\ last' = [op |-> "getWindVaneDirection", arg |-> NULL,
                ret |-> ScanTable(0, _average)]
    /\ UNCHANGED <<vaneVars, timerVars, string, pc, dirI>>

(***************************************************************************)
(* getWindVaneDirection one read of _average at a time, for the case that  *)
(* processWindVane interrupts it                                           *)
(***************************************************************************)
dirReturn(r) ==
    /\ pc' = "idle"
    /\ dirI' = 0
    /\ last' = [op |-> "getWindVaneDirection", arg |-> NULL, ret |-> r]

\* i++ and the loop test i < WIND_VANE_DIRECTIONS_COUNT
dirAdvance ==
    IF dirI + 1 < WIND_VANE_DIRECTIONS_COUNT
    THEN /\ dirI' = dirI + 1
         /\ pc' = "dirLower"
         /\ UNCHANGED last
    ELSE dirReturn(WIND_VANE_DIRECTIONS_COUNT)

dirCall ==
    /\ pc = "idle"
    /\ pc' = "dirLower"
    /\ dirI' = 0
    /\ UNCHANGED <<vaneVars, timerVars, string, last>>

\* dirLower without the comparison with the lower edge
dirLower_skip ==
    /\ pc = "dirLower"
    /\ pc' = "dirUpper"
    /\ UNCHANGED <<dirI, last>>
    /\ UNCHANGED <<vaneVars, timerVars, string>>

\* _average >= WIND_VANE_VALUES[i] - WIND_VANE_CODE_BAND
dirLower ==
    /\ pc = "dirLower"
    /\ IF LowerOk(dirI, _average)
       THEN /\ pc' = "dirUpper"
            /\ UNCHANGED <<dirI, last>>
       ELSE dirAdvance
    /\ UNCHANGED <<vaneVars, timerVars, string>>

\* _average <= WIND_VANE_VALUES[i] + WIND_VANE_CODE_BAND
dirUpper ==
    /\ pc = "dirUpper"
    /\ IF UpperOk(dirI, _average)
       THEN dirReturn(dirI)
       ELSE dirAdvance
    /\ UNCHANGED <<vaneVars, timerVars, string>>

(***************************************************************************)
(* Direction strings                                                       *)
(***************************************************************************)
\* const unsigned char WIND_VANE_DIR_STRING[][4], as ASCII codes:
\* N = 78, E = 69, S = 83, W = 87, the terminator and the padding are 0
WIND_VANE_DIR_STRING ==
    << <<78, 0, 0, 0>>,    <<78, 78, 69, 0>>, <<78, 69, 0, 0>>, <<69, 78, 69, 0>>,
       <<69, 0, 0, 0>>,    <<69, 83, 69, 0>>, <<83, 69, 0, 0>>, <<83, 83, 69, 0>>,
       <<83, 0, 0, 0>>,    <<83, 83, 87, 0>>, <<83, 87, 0, 0>>, <<87, 83, 87, 0>>,
       <<87, 0, 0, 0>>,    <<87, 78, 87, 0>>, <<78, 87, 0, 0>>, <<78, 78, 87, 0>> >>

\* the table as it lies in memory: 64 consecutive bytes, from offset 0
DirStringBytes ==
    [off \in 0..(4 * WIND_VANE_DIRECTIONS_COUNT - 1) |->
        WIND_VANE_DIR_STRING[(off \div 4) + 1][(off % 4) + 1]]

\* the string literal "ERR": E = 69, R = 82
ErrBytes == [off \in 0..3 |-> <<69, 82, 82, 0>>[off + 1]]

\* the bytes strcpy copies from mem at off: up to and including the first 0
\* (or up to the end of mem, where the model's memory ends)
RECURSIVE CString(_, _)
CString(mem, off) ==
    IF off \notin DOMAIN mem THEN <<>>
    ELSE IF mem[off] = 0 THEN <<0>>
    ELSE <<mem[off]>> \o CString(mem, off + 1)

\* the 4-char destination after strcpy wrote the bytes src to its start
strcpy(dst, src) ==
    [j \in 1..4 |-> IF j <= Len(src) THEN src[j] ELSE dst[j]]

\* getWindVaneDirString that takes WIND_VANE_DIRECTIONS_COUNT for a direction
\* of the table
getWindVaneDirString_offByOne(direction) ==
    /\ pc = "idle"
    /\ IF direction <= WIND_VANE_DIRECTIONS_COUNT
       THEN LET src == CString(DirStringBytes, 4 * direction)
            IN  /\ string' = strcpy(string, src)
                /\ last' = [op |-> "getWindVaneDirString", arg |-> direction,
                            ret |-> Len(src)]
       ELSE /\ string' = string
            /\ last' = [op |-> "getWindVaneDirString", arg |-> direction,
                        ret |-> 0]
    /\ UNCHANGED <<vaneVars, timerVars, pc, dirI>>

\* last.ret is the number of bytes written to the caller's buffer
getWindVaneDirString(direction) ==
    /\ pc = "idle"
    /\ IF direction < WIND_VANE_DIRECTIONS_COUNT
       THEN LET src == CString(DirStringBytes, 4 * direction)
            IN  /\ string' = strcpy(string, src)
                /\ last' = [op |-> "getWindVaneDirString", arg |-> direction,
                            ret |-> Len(src)]
       ELSE IF direction = WIND_VANE_DIRECTIONS_COUNT
       THEN LET src == CString(ErrBytes, 0)
            IN  /\ string' = strcpy(string, src)
                /\ last' = [op |-> "getWindVaneDirString", arg |-> direction,
                            ret |-> Len(src)]
       ELSE /\ string' = string
            /\ last' = [op |-> "getWindVaneDirString", arg |-> direction,
                        ret |-> 0]
    /\ UNCHANGED <<vaneVars, timerVars, pc, dirI>>

(***************************************************************************)
(* IEEE 754 double precision values m * 2^e, for the two conversions.      *)
(* A natural number too large for the model checker's integers is a        *)
(* sequence of 5 limbs of 15 bits, the least significant first.  A double  *)
(* is the record [m, e] with m of exactly 53 bits, or zero with e = 0.     *)
(***************************************************************************)
LimbBase == 2^15

BigZero == <<0, 0, 0, 0, 0>>

\* the natural number n < 2^31
Big(n) ==
    <<n % LimbBase, (n \div LimbBase) % LimbBase,
      n \div (LimbBase * LimbBase), 0, 0>>

\* x * k for 0 <= k <= 2^15
BigMul(x, k) ==
    LET t1 == x[1] * k
        t2 == x[2] * k + (t1 \div LimbBase)
        t3 == x[3] * k + (t2 \div LimbBase)
        t4 == x[4] * k + (t3 \div LimbBase)
        t5 == x[5] * k + (t4 \div LimbBase)
    IN  <<t1 % LimbBase, t2 % LimbBase, t3 % LimbBase, t4 % LimbBase,
          t5 % LimbBase>>

BigAdd(x, y) ==
    LET t1 == x[1] + y[1]
        t2 == x[2] + y[2] + (t1 \div LimbBase)
        t3 == x[3] + y[3] + (t2 \div LimbBase)
        t4 == x[4] + y[4] + (t3 \div LimbBase)
        t5 == x[5] + y[5] + (t4 \div LimbBase)
    IN  <<t1 % LimbBase, t2 % LimbBase, t3 % LimbBase, t4 % LimbBase,
          t5 % LimbBase>>

\* x - y for x >= y
BigSub(x, y) ==
    LET t1 == x[1] - y[1]
        t2 == x[2] - y[2] - (IF t1 < 0 THEN 1 ELSE 0)
        t3 == x[3] - y[3] - (IF t2 < 0 THEN 1 ELSE 0)
        t4 == x[4] - y[4] - (IF t3 < 0 THEN 1 ELSE 0)
        t5 == x[5] - y[5] - (IF t4 < 0 THEN 1 ELSE 0)
    IN  <<(t1 + LimbBase) % LimbBase, (t2 + LimbBase) % LimbBase,
          (t3 + LimbBase) % LimbBase, (t4 + LimbBase) % LimbBase,
          (t5 + LimbBase) % LimbBase>>

BigLeq(x, y) ==
    IF x[5] # y[5] THEN x[5] < y[5]
    ELSE IF x[4] # y[4] THEN x[4] < y[4]
    ELSE IF x[3] # y[3] THEN x[3] < y[3]
    ELSE IF x[2] # y[2] THEN x[2] < y[2]
    ELSE x[1] <= y[1]

\* x \div d and x % d for 0 < d <= 2^15
BigDiv(x, d) ==
    LET c5 == x[5]
        c4 == (c5 % d) * LimbBase + x[4]
        c3 == (c4 % d) * LimbBase + x[3]
        c2 == (c3 % d) * LimbBase + x[2]
        c1 == (c2 % d) * LimbBase + x[1]
    IN  [q |-> <<c1 \div d, c2 \div d, c3 \div d, c4 \div d, c5 \div d>>,
         r |-> c1 % d]

\* the number of bits of n < 2^15
Bits(n) == CHOOSE b \in 0..15 : n < 2^b /\ (b = 0 \/ n >= 2^(b - 1))

\* the number of bits of x
BigBits(x) ==
    IF x[5] # 0 THEN 60 + Bits(x[5])
    ELSE IF x[4] # 0 THEN 45 + Bits(x[4])
    ELSE IF x[3] # 0 THEN 30 + Bits(x[3])
    ELSE IF x[2] # 0 THEN 15 + Bits(x[2])
    ELSE Bits(x[1])

\* x * 2^s for the part of s between from and from + 14
ShlPart(x, s, from) ==
    BigMul(x, 2^(IF s - from > 14 THEN 14 ELSE IF s < from THEN 0 ELSE s - from))

\* x * 2^s for 0 <= s <= 70
BigShl(x, s) ==
    ShlPart(ShlPart(ShlPart(ShlPart(ShlPart(x, s, 0), s, 14), s, 28), s, 42), s, 56)

DblZero == [m |-> BigZero, e |-> 0]

\* q, which has 53 bits, plus one when up; 2^53 is 2^52 * 2
DblCarry(q, e, up) ==
    LET q1 == IF up THEN BigAdd(q, Big(1)) ELSE q
    IN  IF BigBits(q1) > 53
        THEN [m |-> BigDiv(q1, 2).q, e |-> e + 1]
        ELSE [m |-> q1, e |-> e]

\* the double nearest to x * 2^e, ties to even, for x below 2^68
DblRound(x, e) ==
    LET n == BigBits(x)
    IN  IF n = 0 THEN DblZero
        ELSE IF n <= 53 THEN [m |-> BigShl(x, 53 - n), e |-> e - (53 - n)]
        ELSE LET s == n - 53
                 d == BigDiv(x, 2^s)
                 half == 2^(s - 1)
             IN  DblCarry(d.q, e + s,
                          d.r > half \/ (d.r = half /\ d.q[1] % 2 = 1))

\* the product of the double a and the double of the integer k, 0 <= k <= 2^15:
\* the exact product rounded once
DblMul(a, k) == DblRound(BigMul(a.m, k), a.e)

\* the double a compiler makes of the decimal literal n / d, for n < 2^31
\* and 0 < d < 2^14: the double nearest to it, ties to even.  The quotient
\* n * 2^k \div d has 52 or 53 bits for the first k tried, 53 for the next.
DblLiteral(n, d) ==
    IF n = 0 THEN DblZero
    ELSE LET k1 == 52 - BigBits(Big(n)) + Bits(d)
             k == IF BigBits(BigDiv(BigShl(Big(n), k1), d).q) = 53
                  THEN k1 ELSE k1 + 1
             qr == BigDiv(BigShl(Big(n), k), d)
         IN  DblCarry(qr.q, 0 - k,
                      2 * qr.r > d \/ (2 * qr.r = d /\ qr.q[1] % 2 = 1))

(***************************************************************************)
(* Anemometer and rain bucket                                              *)
(***************************************************************************)
\* const double windSpeedConversion_MPH = 1.492
windSpeedConversion_MPH == DblLiteral(1492, 1000)

\* const double rainBucketConversion_inPerHr = 0.011
rainBucketConversion_inPerHr == DblLiteral(11, 1000)

\* A pulse of the sensor increments the counter of a running timer.
Pulse(t) ==
    /\ CEN[t]
    /\ CNT' = [CNT EXCEPT ![t] = @ + 1]
    /\ last' = [op |-> "Pulse", arg |-> t, ret |-> 0]
    /\ UNCHANGED <<vaneVars, hwindSpeedTimer, hrainBucketCounter, CEN,
                   _windSpeedCount, _rainBucketCount, string, pc, dirI>>

initWindSpeed(htim) ==
    /\ pc = "idle"
    /\ IF htim = NULL
       THEN /\ last' = [op |-> "initWindSpeed", arg |-> htim, ret |-> 1]
            /\ UNCHANGED <<hwindSpeedTimer, CEN>>
       ELSE /\ hwindSpeedTimer' = htim
            /\ CEN' = [CEN EXCEPT ![htim] = TRUE]
            /\ last' = [op |-> "initWindSpeed", arg |-> htim, ret |-> 0]
    /\ UNCHANGED <<vaneVars, hrainBucketCounter, CNT, _windSpeedCount,
                   _rainBucketCount, string, pc, dirI>>

\* _windSpeedCount = hwindSpeedTimer->Instance->CNT; through a NULL handle
\* the behaviour is undefined
processWindSpeedRead ==
    /\ pc = "idle"
    /\ IF hwindSpeedTimer = NULL
       THEN /\ pc' = "undefined"
            /\ UNCHANGED _windSpeedCount
       ELSE /\ _windSpeedCount' = CNT[hwindSpeedTimer]
            /\ pc' = "windSpeedClear"
    /\ UNCHANGED <<vaneVars, hwindSpeedTimer, hrainBucketCounter, CNT, CEN,
                   _rainBucketCount, string, dirI, last>>

\* processWindSpeedClear without the reset of the counter
processWindSpeedClear_keep ==
    /\ pc = "windSpeedClear"
    /\ pc' = "idle"
    /\ last' = [op |-> "processWindSpeed", arg |-> NULL, ret |-> 0]
    /\ UNCHANGED <<vaneVars, hwindSpeedTimer, hrainBucketCounter, CNT, CEN,
                   _windSpeedCount, _rainBucketCount, string, dirI>>

\* hwindSpeedTimer->Instance->CNT = 0, and the return
processWindSpeedClear ==
    /\ pc = "windSpeedClear"
    /\ CNT' = [CNT EXCEPT ![hwindSpeedTimer] = 0]
    /\ pc' = "idle"
    /\ last' = [op |-> "processWindSpeed", arg |-> NULL, ret |-> 0]
    /\ UNCHANGED <<vaneVars, hwindSpeedTimer, hrainBucketCounter, CEN,
                   _windSpeedCount, _rainBucketCount, string, dirI>>

\* getWindSpeedCount that clears the count it returns
getWindSpeedCount_clear ==
    /\ pc = "idle"
    /\ last' = [op |-> "getWindSpeedCount", arg |-> NULL,
                ret |-> _windSpeedCount]
    /\ _windSpeedCount' = 0
    /\ UNCHANGED <<vaneVars, hwindSpeedTimer, hrainBucketCounter, CNT, CEN,
                   _rainBucketCount, string, pc, dirI>>

getWindSpeedCount ==
    /\ pc = "idle"
    /\ last' = [op |-> "getWindSpeedCount", arg |-> NULL,
                ret |-> _windSpeedCount]
    /\ UNCHANGED <<vaneVars, timerVars, string, pc, dirI>>

getWindSpeed_MPH ==
    /\ pc = "idle"
    /\ last' = [op |-> "getWindSpeed_MPH", arg |-> NULL,
                ret |-> DblMul(windSpeedConversion_MPH, _windSpeedCount)]
    /\ UNCHANGED <<vaneVars, timerVars, string, pc, dirI>>

\* initRainBucket that stores the handle before it tests it
initRainBucket_bindFirst(htim) ==
    /\ pc = "idle"
    /\ hrainBucketCounter' = htim
    /\ IF htim = NULL
       THEN /\ last' = [op |-> "initRainBucket", arg |-> htim, ret |-> 1]
            /\ UNCHANGED CEN
       ELSE /\ CEN' = [CEN EXCEPT ![htim] = TRUE]
            /\ last' = [op |-> "initRainBucket", arg |-> htim, ret |-> 0]
    /\ UNCHANGED <<vaneVars, hwindSpeedTimer, CNT, _windSpeedCount,
                   _rainBucketCount, string, pc, dirI>>

initRainBucket(htim) ==
    /\ pc = "idle"
    /\ IF htim = NULL
       THEN /\ last' = [op |-> "initRainBucket", arg |-> htim, ret |-> 1]
            /\ UNCHANGED <<hrainBucketCounter, CEN>>
       ELSE /\ hrainBucketCounter' = htim
            /\ CEN' = [CEN EXCEPT ![htim] = TRUE]
            /\ last' = [op |-> "initRainBucket", arg |-> htim, ret |-> 0]
    /\ UNCHANGED <<vaneVars, hwindSpeedTimer, CNT, _windSpeedCount,
                   _rainBucketCount, string, pc, dirI>>

\* _rainBucketCount = hrainBucketCounter->Instance->CNT
processRainBucketRead ==
    /\ pc = "idle"
    /\ IF hrainBucketCounter = NULL
       THEN /\ pc' = "undefined"
            /\ UNCHANGED _rainBucketCount
       ELSE /\ _rainBucketCount' = CNT[hrainBucketCounter]
            /\ pc' = "rainBucketClear"
    /\ UNCHANGED <<vaneVars, hwindSpeedTimer, hrainBucketCounter, CNT, CEN,
                   _windSpeedCount, string, dirI, last>>

\* processRainBucketClear without the reset of the counter
processRainBucketClear_keep ==
    /\ pc = "rainBucketClear"
    /\ pc' = "idle"
    /\ last' = [op |-> "processRainBucket", arg |-> NULL, ret |-> 0]
    /\ UNCHANGED <<vaneVars, hwindSpeedTimer, hrainBucketCounter, CNT, CEN,
                   _windSpeedCount, _rainBucketCount, string, dirI>>

\* hrainBucketCounter->Instance->CNT = 0, and the return
processRainBucketClear ==
    /\ pc = "rainBucketClear"
    /\ CNT' = [CNT EXCEPT ![hrainBucketCounter] = 0]
    /\ pc' = "idle"
    /\ last' = [op |-> "processRainBucket", arg |-> NULL, ret |-> 0]
    /\ UNCHANGED <<vaneVars, hwindSpeedTimer, hrainBucketCounter, CEN,
                   _windSpeedCount, _rainBucketCount, string, dirI>>

\* getRainfall_inperhr without the factor 60
getRainfall_perMinute ==
    /\ pc = "idle"
    /\ last' = [op |-> "getRainfall_inperhr", arg |-> NULL,
                ret |-> DblMul(rainBucketConversion_inPerHr, _rainBucketCount)]
    /\ UNCHANGED <<vaneVars, timerVars, string, pc, dirI>>

\* _rainBucketCount * rainBucketConversion_inPerHr * 60, from the left
getRainfall_inperhr ==
    /\ pc = "idle"
    /\ last' = [op |-> "getRainfall_inperhr", arg |-> NULL,
                ret |-> DblMul(DblMul(rainBucketConversion_inPerHr,
                                      _rainBucketCount), 60)]
    /\ UNCHANGED <<vaneVars, timerVars, string, pc, dirI>>

(***************************************************************************)
(* Sample buffers the transfers of the model deliver                       *)
(***************************************************************************)
\* 12-bit conversions at and next to the edges of every tolerance band
BandSamples ==
    UNION { { U32(r - WIND_VANE_CODE_BAND - 1), U32(r - WIND_VANE_CODE_BAND),
              U32(r + WIND_VANE_CODE_BAND), U32(r + WIND_VANE_CODE_BAND + 1) } :
            r \in { WIND_VANE_VALUES[i][2] : i \in 0..(WIND_VANE_DIRECTIONS_COUNT - 1) } }

\* words at the ends of the 12-bit and of the 32-bit range
WordSamples == { U32(0), U32(4095), <<1024, 0>>, <<W16 - 1, W16 - 1>> }

Uniform(a) == [i \in BufIndex |-> a]

Mixed(a, b, k) ==
    [i \in BufIndex |-> IF i < WIND_VANE_ADC_BUF_SIZE - k THEN a ELSE b]

VaneBuffers ==
    { Uniform(a) : a \in BandSamples } \cup
    { Mixed(a, b, k) : a \in WordSamples, b \in WordSamples, k \in 0..MaxMix }

Unobserved == UNCHANGED <<held, pulseLog>>

(***************************************************************************)
(* The wind vane, its calls one after the other                            *)
(***************************************************************************)
NextVane ==
    \/ \E h \in {NULL, hadc1} : initWindVane(h) /\ Unobserved
    \/ \E buf \in VaneBuffers : DmaTransfer(buf) /\ Unobserved
    \/ processWindVane /\ Unobserved
    \/ getWindVaneDirection /\ Unobserved

SpecVane == Init /\ [][NextVane]_vars

(***************************************************************************)
(* getWindVaneDirString on a caller's buffer of any content                *)
(***************************************************************************)
InitLabel ==
    /\ hwindVaneAdc = NULL
    /\ adcDma = FALSE
    /\ _adcBuf = [i \in BufIndex |-> U32(0)]
    /\ _average = U32(0)
    /\ hwindSpeedTimer = NULL
    /\ hrainBucketCounter = NULL
    /\ CNT = [t \in Timers |-> 0]
    /\ CEN = [t \in Timers |-> FALSE]
    /\ _windSpeedCount = 0
    /\ _rainBucketCount = 0
    /\ string \in [1..4 -> {0, 88}]
    /\ pc = "idle"
    /\ dirI = 0
    /\ held = {}
    /\ arrived = [t \in Timers |-> 0]
    /\ captured = [t \in Timers |-> 0]
    /\ lost = [t \in Timers |-> 0]
    /\ last = NoCall

NextLabel ==
    \E d \in 0..MaxDirection : getWindVaneDirString(d) /\ Unobserved

SpecLabel == InitLabel /\ [][NextLabel]_vars

(***************************************************************************)
(* getWindVaneDirection interrupted by the DMA transfer complete callback  *)
(***************************************************************************)
\* averages in the bands of NNW and N, below every band and above every band
RaceBuffers == { Uniform(U32(a)) : a \in {3341, 3541, 100, 4000} }

NextRace ==
    \/ initWindVane(hadc1) /\ Unobserved
    \/ \E buf \in RaceBuffers : DmaTransfer(buf) /\ Unobserved
    \/ /\ processWindVane
       /\ held' = IF pc = "idle" THEN held ELSE held \cup {_average'}
       /\ UNCHANGED pulseLog
    \/ dirCall /\ held' = {_average} /\ UNCHANGED pulseLog
    \/ dirLower /\ Unobserved
    \/ dirUpper /\ Unobserved

SpecRace == Init /\ [][NextRace]_vars
(***************************************************************************)
(* The two pulse counters.  After a NULL handle has been dereferenced the  *)
(* behaviour is undefined and no call is followed further.  Each timer     *)
(* belongs to one component.                                               *)
(***************************************************************************)
NextCounters ==
    \/ \E h \in {NULL, htimSpeed} : initWindSpeed(h) /\ Unobserved
    \/ \E h \in {NULL, htimRain} : initRainBucket(h) /\ Unobserved
    \/ CNT[htimSpeed] < MaxSpeedPulses /\ Pulse(htimSpeed) /\ Unobserved
    \/ CNT[htimRain] < MaxRainPulses /\ Pulse(htimRain) /\ Unobserved
    \/ processWindSpeedRead /\ Unobserved
    \/ processWindSpeedClear /\ Unobserved
    \/ processRainBucketRead /\ Unobserved
    \/ processRainBucketClear /\ Unobserved
    \/ getWindSpeedCount /\ Unobserved
    \/ getWindSpeed_MPH /\ Unobserved
    \/ getRainfall_inperhr /\ Unobserved

SpecCounters == Init /\ [][NextCounters]_vars

(***************************************************************************)
(* The two pulse counters with every pulse accounted for                   *)
(***************************************************************************)
\* the timer whose counter a call has read and not yet reset
MidProcess(t) ==
    \/ pc = "windSpeedClear" /\ hwindSpeedTimer = t
    \/ pc = "rainBucketClear" /\ hrainBucketCounter = t

PulseLogged(t) ==
    /\ arrived[t] < MaxArrived
    /\ Pulse(t)
    /\ arrived' = [arrived EXCEPT ![t] = @ + 1]
    /\ lost' = IF MidProcess(t) THEN [lost EXCEPT ![t] = @ + 1] ELSE lost
    /\ UNCHANGED <<captured, held>>

ReadLogged(h) ==
    /\ captured' = IF h = NULL THEN captured
                   ELSE [captured EXCEPT ![h] = @ + CNT[h]]
    /\ UNCHANGED <<arrived, lost, held>>

NextPulse ==
    \/ \E h \in {NULL, htimSpeed} : initWindSpeed(h) /\ Unobserved
    \/ \E h \in {NULL, htimRain} : initRainBucket(h) /\ Unobserved
    \/ \E t \in Timers : PulseLogged(t)
    \/ processWindSpeedRead /\ ReadLogged(hwindSpeedTimer)
    \/ processWindSpeedClear /\ Unobserved
    \/ processRainBucketRead /\ ReadLogged(hrainBucketCounter)
    \/ processRainBucketClear /\ Unobserved

SpecPulse == Init /\ [][NextPulse]_vars

(***************************************************************************)
(* The three components together                                           *)
(***************************************************************************)
DriverBuffers == { Uniform(U32(a)) : a \in {1123, 3000} }

NextDriver ==
    \/ \E h \in {NULL, hadc1} : initWindVane(h) /\ Unobserved
    \/ \E h \in {NULL, htimSpeed} : initWindSpeed(h) /\ Unobserved
    \/ \E h \in {NULL, htimRain} : initRainBucket(h) /\ Unobserved
    \/ \E buf \in DriverBuffers : DmaTransfer(buf) /\ Unobserved
    \/ \E t \in Timers :
           CNT[t] < MaxDriverPulses /\ Pulse(t) /\ Unobserved
    \/ processWindVane /\ Unobserved
    \/ processWindSpeedRead /\ Unobserved
    \/ processWindSpeedClear /\ Unobserved
    \/ processRainBucketRead /\ Unobserved
    \/ processRainBucketClear /\ Unobserved
    \/ getWindVaneDirection /\ Unobserved
    \/ getWindSpeedCount /\ Unobserved
    \/ getWindSpeed_MPH /\ Unobserved
    \/ getRainfall_inperhr /\ Unobserved

SpecDriver == Init /\ [][NextDriver]_vars

(***************************************************************************)
(* Properties of the wind vane                                             *)
(***************************************************************************)
Directions == 0..15

\* the value of a uint32_t below 2^31 as an integer
Val(p) == p[1] * W16 + p[2]

Ref(i) == Val(WIND_VANE_VALUES[i])

Min(S) == CHOOSE m \in S : \A n \in S : m <= n

\* the table entries whose band [ref - 20, ref + 20] holds v, in the integers
Matching(v) == { i \in Directions : Ref(i) - 20 <= v /\ v <= Ref(i) + 20 }

\* C1: getWindVaneDirection returns the lowest table index whose inclusive
\* band [ref - 20, ref + 20] holds the Averaged Signal, and 16 when no band
\* holds it.
C1_LowestMatch ==
    last.op = "getWindVaneDirection" =>
        LET M == Matching(Val(_average))
        IN  last.ret = IF M = {} THEN 16 ELSE Min(M)

\* ENE (index 3) returned for the average 1143, the upper edge of its band
C1_Witness ==
    /\ last.op = "getWindVaneDirection"
    /\ Val(_average) = 1143
    /\ last.ret = 3

\* floor(sum / 64) of the unwrapped sum of 64 words, as 16-bit halves
TrueAverage(buf) ==
    LET lo == SumHalf(buf, 0, 63, 2)
        hi == SumHalf(buf, 0, 63, 1) + (lo \div W16)
    IN  <<hi \div 64, ((hi % 64) * W16 + (lo % W16)) \div 64>>

\* C2: after processWindVane the Averaged Signal is floor(sum / 64) of the
\* true sum of the 64 samples, whatever 32-bit words the samples are.
C2_ExactAverage ==
    last.op = "processWindVane" => _average = TrueAverage(_adcBuf)

\* C10: the bands of the shipped table are pairwise disjoint and no lower
\* edge underflows, so the Averaged Signal matches at most one entry and a
\* returned direction is the only entry that matches.
C10_BandsDisjoint ==
    /\ \A i \in Directions : Ref(i) >= 20
    /\ \A i, j \in Directions :
           i # j => (Ref(i) + 20 < Ref(j) - 20 \/ Ref(j) + 20 < Ref(i) - 20)
    /\ Cardinality({ i \in Directions :
                       LowerOk(i, _average) /\ UpperOk(i, _average) }) <= 1
    /\ (last.op = "getWindVaneDirection" /\ last.ret < 16) =>
           { i \in Directions : LowerOk(i, _average) /\ UpperOk(i, _average) }
               = {last.ret}

\* E (index 4) returned for 1151, the lower edge of its band and the value
\* of the table nearest to a neighbouring band (ENE ends at 1143)
C10_Witness ==
    /\ last.op = "getWindVaneDirection"
    /\ Val(_average) = 1151
    /\ last.ret = 4

(***************************************************************************)
(* Properties of the direction strings                                     *)
(***************************************************************************)
Ascii == [c \in {"N", "E", "S", "W", "R"} |->
            CASE c = "N" -> 78 [] c = "E" -> 69 [] c = "S" -> 83
              [] c = "W" -> 87 [] c = "R" -> 82]

\* the 16 compass points in compass order, as weatherMeter.h enumerates them
Compass ==
    << <<"N">>, <<"N", "N", "E">>, <<"N", "E">>, <<"E", "N", "E">>,
       <<"E">>, <<"E", "S", "E">>, <<"S", "E">>, <<"S", "S", "E">>,
       <<"S">>, <<"S", "S", "W">>, <<"S", "W">>, <<"W", "S", "W">>,
       <<"W">>, <<"W", "N", "W">>, <<"N", "W">>, <<"N", "N", "W">> >>

Codes(w) == [j \in 1..Len(w) |-> Ascii[w[j]]]

\* the text a reader of the buffer sees: the bytes before the first 0
RECURSIVE TextOf(_, _)
TextOf(buf, j) ==
    IF j > Len(buf) \/ buf[j] = 0 THEN <<>> ELSE <<buf[j]>> \o TextOf(buf, j + 1)

\* C7: for a direction below 16 the buffer reads as that direction's compass
\* abbreviation (1 to 3 characters, in compass order), for 16 it reads "ERR";
\* the 16 abbreviations differ from each other and from "ERR"; at most 4
\* bytes are written, terminator included.
C7_Labels ==
    /\ \A d, e \in Directions :
           d # e => TextOf(WIND_VANE_DIR_STRING[d + 1], 1)
                      # TextOf(WIND_VANE_DIR_STRING[e + 1], 1)
    /\ \A d \in Directions :
           /\ TextOf(WIND_VANE_DIR_STRING[d + 1], 1) # Codes(<<"E", "R", "R">>)
           /\ Len(TextOf(WIND_VANE_DIR_STRING[d + 1], 1)) \in 1..3
    /\ last.op = "getWindVaneDirString" =>
           /\ last.ret <= 4
           /\ last.arg < 16 =>
                  /\ TextOf(string, 1) = Codes(Compass[last.arg + 1])
                  /\ last.ret = Len(Compass[last.arg + 1]) + 1
           /\ last.arg = 16 =>
                  /\ TextOf(string, 1) = Codes(<<"E", "R", "R">>)
                  /\ last.ret = 4

\* "W" written over a buffer that held other characters: the buffer reads W
C7_Witness ==
    /\ last.op = "getWindVaneDirString"
    /\ last.arg = 12
    /\ string = <<87, 0, 88, 88>>

(***************************************************************************)
(* Properties of an interrupted getWindVaneDirection                       *)
(***************************************************************************)
Classify(v) == IF Matching(v) = {} THEN 16 ELSE Min(Matching(v))

Returned == pc = "idle" /\ last.op = "getWindVaneDirection"

\* C9: the direction returned is the classification of a value that the
\* Averaged Signal held at some point during the call.
C9_ClassOfHeldValue ==
    Returned => \E v \in held : last.ret = Classify(Val(v))

\* C9, amended: a returned index i has a held value at or above ref_i - 20
\* and a held value at or below ref_i + 20, not necessarily the same one; the
\* result is the classification of the Averaged Signal when the signal held
\* one value during the whole call.
C9_TornClassification ==
    Returned =>
        /\ last.ret \in 0..16
        /\ last.ret < 16 =>
               /\ \E a \in held : Val(a) >= Ref(last.ret) - 20
               /\ \E b \in held : Val(b) <= Ref(last.ret) + 20
        /\ Cardinality(held) = 1 =>
               \E v \in held : last.ret = Classify(Val(v))

\* N returned although the signal only held 4000 and 100, both outside of
\* every band
C9_Witness ==
    /\ Returned
    /\ held = {U32(4000), U32(100)}
    /\ last.ret = 0

(***************************************************************************)
(* Properties of the pulse counters                                        *)
(***************************************************************************)
\* C3: processWindSpeed and processRainBucket store the value the counter
\* holds when they read it, keep it to their return, and return with the
\* counter of their timer at zero.
C3_ReadThenReset ==
    [][ /\ (pc = "idle" /\ pc' = "windSpeedClear") =>
               _windSpeedCount' = CNT[hwindSpeedTimer]
        /\ pc = "windSpeedClear" =>
               /\ _windSpeedCount' = _windSpeedCount
               /\ pc' = "idle" => /\ CNT'[hwindSpeedTimer'] = 0
                                  /\ last'.op = "processWindSpeed"
        /\ (pc = "idle" /\ pc' = "rainBucketClear") =>
               _rainBucketCount' = CNT[hrainBucketCounter]
        /\ pc = "rainBucketClear" =>
               /\ _rainBucketCount' = _rainBucketCount
               /\ pc' = "idle" => /\ CNT'[hrainBucketCounter'] = 0
                                  /\ last'.op = "processRainBucket"
      ]_vars

\* processWindSpeed has returned: it captured 3 pulses and left the counter
\* at zero, and the rain bucket has been processed before it
C3_Witness ==
    /\ pc = "idle"
    /\ last.op = "processWindSpeed"
    /\ _windSpeedCount = 3
    /\ CNT[htimSpeed] = 0
    /\ _rainBucketCount = 1

\* a call of name op that starts and returns in one step
CallOf(op) == pc = "idle" /\ pc' = "idle" /\ last'.op = op

\* C4: each initialize operation returns 1 exactly for a NULL handle and 0
\* otherwise; for NULL it leaves the bound handle and the hardware as they
\* are, otherwise it binds the handle and starts the hardware.
C4_InitContract ==
    [][ /\ CallOf("initWindVane") =>
               /\ last'.ret = IF last'.arg = NULL THEN 1 ELSE 0
               /\ last'.arg = NULL =>
                      hwindVaneAdc' = hwindVaneAdc /\ adcDma' = adcDma
               /\ last'.arg # NULL =>
                      hwindVaneAdc' = last'.arg /\ adcDma'
        /\ CallOf("initWindSpeed") =>
               /\ last'.ret = IF last'.arg = NULL THEN 1 ELSE 0
               /\ last'.arg = NULL =>
                      hwindSpeedTimer' = hwindSpeedTimer /\ CEN' = CEN
               /\ last'.arg # NULL =>
                      hwindSpeedTimer' = last'.arg /\ CEN'[last'.arg]
        /\ CallOf("initRainBucket") =>
               /\ last'.ret = IF last'.arg = NULL THEN 1 ELSE 0
               /\ last'.arg = NULL =>
                      hrainBucketCounter' = hrainBucketCounter /\ CEN' = CEN
               /\ last'.arg # NULL =>
                      hrainBucketCounter' = last'.arg /\ CEN'[last'.arg]
      ]_vars

\* initWindSpeed(NULL) has failed after an earlier success: the timer is
\* still bound and running
C4_Witness ==
    /\ last.op = "initWindSpeed"
    /\ last.arg = NULL
    /\ last.ret = 1
    /\ hwindSpeedTimer = htimSpeed
    /\ CEN[htimSpeed]

\* |d - n / 1000| <= 2^-51 * n / 1000 for the double d and 0 <= n < 2^15
WithinRounding(d, n) ==
    IF n = 0 THEN d = DblZero
    ELSE LET k == 0 - d.e
             DK == BigMul(d.m, 1000)
             NK == BigShl(Big(n), IF k \in 0..60 THEN k ELSE 0)
             diff == IF BigLeq(DK, NK) THEN BigSub(NK, DK) ELSE BigSub(DK, NK)
             bound == BigDiv(BigDiv(BigDiv(BigDiv(NK, 2^15).q, 2^15).q,
                                    2^15).q, 2^6).q
         IN  k \in 0..60 /\ BigLeq(diff, bound)

\* the call of name op has returned and nothing has happened since
Result(op) == pc = "idle" /\ last.op = op

\* C5: getWindSpeed_MPH returns the double of the decimal 1.492 x c and
\* getRainfall_inperhr the double of the decimal 0.66 x c, for the captured
\* count c (14.92 for 10 pulses, 1.32 for 2 tips).
C5_ExactDecimal ==
    /\ Result("getWindSpeedCount") => last.ret = _windSpeedCount
    /\ Result("getWindSpeed_MPH") =>
           last.ret = DblLiteral(1492 * _windSpeedCount, 1000)
    /\ Result("getRainfall_inperhr") =>
           last.ret = DblLiteral(660 * _rainBucketCount, 1000)

\* C5, amended: the results are the products in double arithmetic, within a
\* relative error of 2^-51 of 1.492 x c and of 0.66 x c; for 10 pulses the
\* speed is the double 14.92, for 2 tips the rainfall rate is the double
\* next below 1.32.
C5_RoundedProduct ==
    /\ Result("getWindSpeedCount") => last.ret = _windSpeedCount
    /\ Result("getWindSpeed_MPH") =>
           /\ WithinRounding(last.ret, 1492 * _windSpeedCount)
           /\ _windSpeedCount = 10 => last.ret = DblLiteral(14920, 1000)
    /\ Result("getRainfall_inperhr") =>
           /\ WithinRounding(last.ret, 660 * _rainBucketCount)
           /\ _rainBucketCount = 2 =>
                  /\ last.ret.e = DblLiteral(1320, 1000).e
                  /\ BigAdd(last.ret.m, Big(1)) = DblLiteral(1320, 1000).m

\* the rainfall rate read after a process() that captured 2 tips
C5_Witness ==
    /\ Result("getRainfall_inperhr")
    /\ _rainBucketCount = 2
    /\ CNT[htimRain] = 0
    /\ last.ret # DblLiteral(1320, 1000)

ReadOps == {"getWindSpeedCount", "getWindSpeed_MPH", "getRainfall_inperhr",
            "getWindVaneDirection"}

\* C6: a read operation changes nothing of the program or the hardware, and
\* called again right after itself it returns the same value; the raw count
\* it returns is the stored count.
C6_ReadsChangeNothing ==
    [][ \A op \in ReadOps :
            CallOf(op) =>
                /\ UNCHANGED progVars
                /\ last.op = op => last'.ret = last.ret
                /\ op = "getWindSpeedCount" => last'.ret = _windSpeedCount'
      ]_vars

\* the speed read while the counter already holds a pulse of the next period
C6_Witness ==
    /\ last.op = "getWindSpeed_MPH"
    /\ _windSpeedCount = 2
    /\ CNT[htimSpeed] = 1
    /\ last.ret = DblMul(windSpeedConversion_MPH, 2)

\* C8: no pulse is in more than one captured count, so the counts captured
\* from a counter sum to no more than the pulses that arrived at it; every
\* pulse is either captured, or lost between a read and its reset, or still
\* in the counter, and never two of these.
C8_CapturedOnceOrLost ==
    \A t \in Timers :
        /\ captured[t] <= arrived[t]
        /\ arrived[t] = captured[t] + lost[t]
                          + (IF MidProcess(t) THEN 0 ELSE CNT[t])

\* of 3 pulses of the anemometer, 2 were captured and 1 arrived between the
\* read and the reset: the counter is at zero and the pulse is gone
C8_Witness ==
    /\ pc = "idle"
    /\ last.op = "processWindSpeed"
    /\ arrived[htimSpeed] = 3
    /\ captured[htimSpeed] = 2
    /\ lost[htimSpeed] = 1
    /\ CNT[htimSpeed] = 0

====
